---------------------------- MODULE Spec2Model ----------------------------
(***************************************************************************)
(* really-notify: the supervisor (lib.rs, FileWatcherConfig::run), the     *)
(* inotify backend (backend/inotify.rs, start_backend and load_config),    *)
(* the bounded delivery channel and the consumer, over a small model of    *)
(* the filesystem and of the kernel's inotify queue.                       *)
(*                                                                         *)
(* Paths are sequences of components; an absolute path starts with "/".    *)
(* Plan construction (load_config up to the event loop) is one step taken  *)
(* against the filesystem as it is at that moment.                         *)
(***************************************************************************)
EXTENDS Integers, Sequences, FiniteSets, TLC

\* ------------------------------------------------------------------ bounds
\* how many filesystem changes the environment makes in one behaviour
MaxChanges == 2
\* symbolic links the kernel follows in one path lookup before ELOOP
ELoopLimit == 40
\* where the count of failed attempts of one wake-up saturates
MaxFails == 2
\* how many records the kernel packs into the buffers given to the decoder
MaxRecords == 2

\* --------------------------------------------------------- program constants
\* mpsc::channel(3)
Capacity == 3
\* const MAX_ITER: usize = 16
MAX_ITER == 16
\* const EVENT_SIZE: usize = size_of::<RawINotifyEvent>(), four 32-bit fields
EVENT_SIZE == 16
\* const NAME_MAX: usize = 255
NAME_MAX == 255

\* ------------------------------------------------------------------- paths
NoPath == <<>>
NoName == ""

Last(s) == s[Len(s)]
Front(s) == SubSeq(s, 1, Len(s) - 1)

\* Path::parent: None for the root, else the path without its last component
Parent(p) == IF Len(p) <= 1 THEN NoPath ELSE Front(p)

\* Path::file_name: None when the path ends in ".." or is the root
FileName(p) ==
    IF p = <<>> \/ Last(p) \in {"/", ".."} THEN NoName ELSE Last(p)

\* Path::is_relative
IsRelative(p) == p = <<>> \/ p[1] # "/"

\* Path::join: an absolute argument replaces the base
Join(base, p) == IF IsRelative(p) THEN base \o p ELSE p

\* normalize: components() drops "." and keeps ".." literally
normalize(p) == SelectSeq(p, LAMBDA c : c # ".")

\* -------------------------------------------------------------- filesystem
\* fs.nodes : inode -> [kind, link, data];  fs.ents : set of <<dir, name, inode>>
Root == 1
DirNode == [kind |-> "dir", link |-> <<>>, data |-> ""]
FileNode(d) == [kind |-> "file", link |-> <<>>, data |-> d]
LinkNode(t) == [kind |-> "link", link |-> t, data |-> ""]

Child(fs, d, n) ==
    IF \E e \in fs.ents : e[1] = d /\ e[2] = n
    THEN (CHOOSE e \in fs.ents : e[1] = d /\ e[2] = n)[3]
    ELSE 0

ParentIno(fs, i) ==
    IF \E e \in fs.ents : e[3] = i
    THEN (CHOOSE e \in fs.ents : e[3] = i)[1]
    ELSE Root

Nlink(fs, i) == Cardinality({e \in fs.ents : e[3] = i})

\* the kernel's path walk; 0 stands for ENOENT, ENOTDIR or ELOOP
RECURSIVE Walk(_, _, _, _, _)
\* one named component: ch is the entry found (0: none), r is what follows
Step(fs, cur, ch, r, follow, fuel) ==
    CASE ch = 0 -> 0
      [] ch # 0 /\ fs.nodes[ch].kind = "link" /\ (r # <<>> \/ follow) ->
            IF fuel = 0 THEN 0
            ELSE Walk(fs, cur, fs.nodes[ch].link \o r, follow, fuel - 1)
      [] OTHER -> Walk(fs, ch, r, follow, fuel)

Walk(fs, cur, rest, follow, fuel) ==
    CASE rest = <<>> -> cur
      [] rest # <<>> /\ fs.nodes[cur].kind # "dir" -> 0
      [] rest # <<>> /\ fs.nodes[cur].kind = "dir" /\ Head(rest) = "/" ->
            Walk(fs, Root, Tail(rest), follow, fuel)
      [] rest # <<>> /\ fs.nodes[cur].kind = "dir" /\ Head(rest) = "." ->
            Walk(fs, cur, Tail(rest), follow, fuel)
      [] rest # <<>> /\ fs.nodes[cur].kind = "dir" /\ Head(rest) = ".." ->
            Walk(fs, ParentIno(fs, cur), Tail(rest), follow, fuel)
      [] OTHER -> Step(fs, cur, Child(fs, cur, Head(rest)), Tail(rest),
                       follow, fuel)

Lookup(fs, path, follow) == Walk(fs, Root, path, follow, ELoopLimit)

\* tokio::fs::read(&self.file): the whole file, following symbolic links
FsRead(fs, path) ==
    LET i == Lookup(fs, path, TRUE)
    IN  IF i # 0 /\ fs.nodes[i].kind = "file"
        THEN [ok |-> TRUE, bytes |-> fs.nodes[i].data]
        ELSE [ok |-> FALSE, bytes |-> ""]

\* ------------------------------------------------------------------ inotify
\* the two masks load_config passes to add_watch
FileMask == {"CloseWrite", "DeleteSelf", "Modify", "MoveSelf"}
DirMask == {"Delete", "DeleteSelf", "Modify", "MoveSelf", "MovedFrom", "MovedTo"}

\* inotify_add_watch: one descriptor per inode of an instance; adding a watch
\* on an inode already watched returns its descriptor and replaces the mask
add_watch(kw, ino, mask) ==
    IF \E i \in 1..Len(kw) : kw[i].ino = ino
    THEN LET i == CHOOSE i \in 1..Len(kw) : kw[i].ino = ino
         IN  [kw |-> [kw EXCEPT ![i].mask = mask], wd |-> i]
    ELSE [kw |-> Append(kw, [ino |-> ino, mask |-> mask]), wd |-> Len(kw) + 1]

\* ------------------------------------------------------- plan construction
\* INotify::new() and the empty collections of load_config; links records, for
\* every symbolic link read, its path and the path the builder goes on with
NewPlan ==
    [st |-> "run", kw |-> <<>>, watch_handles |-> <<>>,
     interesting_children |-> <<>>, symlinks |-> {},
     next_round |-> <<>>, seen_dirs |-> {}, links |-> <<>>]

\* HashMap::insert: a later insert replaces the value of an equal key
Insert(f, k, v) == (k :> v) @@ f

\* phase 1, the main chain: watch the target or link, remember its parent,
\* follow the link.  "loop" is the loop that never ends (a cycle of links).
RECURSIVE Phase1(_, _, _, _)
Phase1(fs, current_main_file, p, visited) ==
    IF current_main_file \in visited THEN [p EXCEPT !.st = "loop"]
    ELSE
    LET ino == Lookup(fs, current_main_file, FALSE)
        par == Parent(current_main_file)
        aw  == add_watch(p.kw, ino, FileMask)
    IN  IF ino = 0 THEN [p EXCEPT !.st = "err"]
        ELSE IF par # NoPath /\ FileName(current_main_file) = NoName
        THEN [p EXCEPT !.st = "panic"]
        ELSE
        LET p1 == [p EXCEPT
                     !.kw = aw.kw,
                     !.watch_handles = Append(@, aw.wd),
                     !.next_round =
                        IF par # NoPath
                        THEN Append(@, <<par, FileName(current_main_file)>>)
                        ELSE @]
        IN  IF fs.nodes[ino].kind = "link"
            THEN LET link == fs.nodes[ino].link
                 IN  Phase1(fs, normalize(Join(par, link)),
                            [p1 EXCEPT
                               !.symlinks = @ \cup {aw.wd},
                               !.links = Append(@, <<current_main_file,
                                                     normalize(Join(par, link))>>)],
                            visited \cup {current_main_file})
            ELSE p1

\* one ancestor: a symbolic link is watched as a file and its target is left
\* for the next round; a directory is watched with its expected child.
\* base is the path whose parent a relative link is joined to.
WatchAncestor(fs, p, path, child, base) ==
    LET ino == Lookup(fs, path, FALSE)
    IN  IF ino = 0 THEN [p EXCEPT !.st = "err"]
        ELSE IF fs.nodes[ino].kind = "link"
        THEN IF child = NoName THEN [p EXCEPT !.st = "panic"]
             ELSE
             LET link == normalize(Join(Parent(base), fs.nodes[ino].link))
                 aw   == add_watch(p.kw, ino, FileMask)
             IN  [p EXCEPT !.next_round = Append(@, <<link, child>>),
                           !.links = Append(@, <<path, link>>),
                           !.kw = aw.kw,
                           !.watch_handles = Append(@, aw.wd),
                           !.seen_dirs = @ \cup {path}]
        ELSE LET aw == add_watch(p.kw, ino, DirMask)
             IN  IF child = NoName THEN [p EXCEPT !.st = "panic"]
                 ELSE [p EXCEPT
                         !.kw = aw.kw,
                         !.watch_handles = Append(@, aw.wd),
                         !.interesting_children = Insert(@, aw.wd, child),
                         !.seen_dirs = @ \cup {path}]

\* the walk from a pending directory up to the root or to a seen ancestor
RECURSIVE WalkUp(_, _, _, _)
WalkUp(fs, p, dir, current_child) ==
    LET parent == Parent(current_child)
    IN  IF p.st # "run" \/ parent = NoPath \/ parent \in p.seen_dirs THEN p
        ELSE WalkUp(fs,
                    WatchAncestor(fs, p, parent, FileName(current_child), dir),
                    dir, parent)

\* one round: the pending pairs are popped from the end of the vector
RECURSIVE Round(_, _, _)
Round(fs, p, round) ==
    IF p.st # "run" \/ round = <<>> THEN p
    ELSE LET dir   == Last(round)[1]
             child == Last(round)[2]
         IN  IF dir \in p.seen_dirs THEN Round(fs, p, Front(round))
             ELSE Round(fs,
                        WalkUp(fs, WatchAncestor(fs, p, dir, child, dir),
                               dir, dir),
                        Front(round))

\* phase 2: rounds until nothing is pending or round_count > MAX_ITER; what
\* is pending at the break stays in next_round
RECURSIVE Rounds(_, _, _)
Rounds(fs, p, round_count) ==
    IF p.st # "run" THEN p
    ELSE IF p.next_round = <<>> \/ round_count > MAX_ITER
    THEN [p EXCEPT !.st = "ok"]
    ELSE Rounds(fs, Round(fs, [p EXCEPT !.next_round = <<>>], p.next_round),
                round_count + 1)

\* a plan of the main chain alone: no directory above it is watched
BuildPlan_LeafOnly(fs, file) ==
    LET p == Phase1(fs, file, NewPlan, {})
    IN  IF p.st = "run" THEN [p EXCEPT !.st = "ok", !.next_round = <<>>] ELSE p

\* load_config from INotify::new() to the event loop
BuildPlan(fs, file) == Rounds(fs, Phase1(fs, file, NewPlan, {}), 0)

\* ------------------------------------------------- the filesystems at start
\* context.file, absolute (lib.rs joins the working directory to a relative one)
File == <<"/", "d", "cfg">>

BaseNodes == (1 :> DirNode) @@ (2 :> DirNode) @@ (3 :> DirNode)
BaseEnts == {<<1, "d", 2>>, <<1, "a", 3>>}

\* /d/cfg does not exist yet
LayoutMissing == [nodes |-> BaseNodes, ents |-> BaseEnts]

\* /d/cfg is a regular file
LayoutPlain ==
    [nodes |-> BaseNodes @@ (10 :> FileNode("v1")),
     ents  |-> BaseEnts \cup {<<2, "cfg", 10>>}]

\* /d/cfg -> real, next to /d/real and /d/other; hard adds a second name,
\* /d/cfg.bak, for the link's inode
LayoutSameDir(hard) ==
    [nodes |-> BaseNodes @@ (11 :> LinkNode(<<"real">>))
                 @@ (12 :> FileNode("v1")) @@ (13 :> FileNode("v2")),
     ents  |-> BaseEnts \cup {<<2, "cfg", 11>>, <<2, "real", 12>>,
                              <<2, "other", 13>>}
                 \cup (IF hard THEN {<<2, "cfg.bak", 11>>} ELSE {})]

\* /d/cfg -> /a/real, next to /a/other
LayoutOtherDir ==
    [nodes |-> BaseNodes @@ (11 :> LinkNode(<<"/", "a", "real">>))
                 @@ (12 :> FileNode("v1")) @@ (13 :> FileNode("v2")),
     ents  |-> BaseEnts \cup {<<2, "cfg", 11>>, <<3, "real", 12>>,
                              <<3, "other", 13>>}]

\* /d/cfg -> ../a/real
LayoutDotDot ==
    [nodes |-> BaseNodes @@ (11 :> LinkNode(<<"..", "a", "real">>))
                 @@ (12 :> FileNode("v1")) @@ (13 :> FileNode("v2")),
     ents  |-> BaseEnts \cup {<<2, "cfg", 11>>, <<3, "real", 12>>,
                              <<3, "other", 13>>}]

\* /d -> a (relative), the target is the regular file /a/cfg; /x is an
\* empty directory
LayoutAncestor ==
    [nodes |-> (1 :> DirNode) @@ (3 :> DirNode) @@ (4 :> DirNode)
                 @@ (14 :> LinkNode(<<"a">>)) @@ (10 :> FileNode("v1")),
     ents  |-> {<<1, "d", 14>>, <<1, "a", 3>>, <<1, "x", 4>>,
                <<3, "cfg", 10>>}]

\* /d -> a (relative) and /a/cfg -> /x/real: the main chain reaches / through
\* /x before the symlinked ancestor /d is looked at
LayoutShadowed ==
    [nodes |-> (1 :> DirNode) @@ (3 :> DirNode) @@ (4 :> DirNode)
                 @@ (14 :> LinkNode(<<"a">>))
                 @@ (11 :> LinkNode(<<"/", "x", "real">>))
                 @@ (12 :> FileNode("v1")) @@ (13 :> FileNode("v2")),
     ents  |-> {<<1, "d", 14>>, <<1, "a", 3>>, <<1, "x", 4>>,
                <<3, "cfg", 11>>, <<4, "real", 12>>, <<4, "cfg", 13>>}]

\* /d/cfg -> /s/sub/real with /s -> a (relative): the walk upward from
\* /s/sub meets the symlinked ancestor /s
LayoutUpward ==
    [nodes |-> BaseNodes @@ (5 :> DirNode)
                 @@ (11 :> LinkNode(<<"/", "s", "sub", "real">>))
                 @@ (14 :> LinkNode(<<"a">>)) @@ (12 :> FileNode("v1")),
     ents  |-> BaseEnts \cup {<<1, "s", 14>>, <<2, "cfg", 11>>,
                              <<3, "sub", 5>>, <<5, "real", 12>>}]

\* /d/cfg -> cfg2 and /d/cfg2 -> cfg: a cycle on the main chain
LayoutCycle ==
    [nodes |-> BaseNodes @@ (11 :> LinkNode(<<"cfg2">>))
                 @@ (15 :> LinkNode(<<"cfg">>)),
     ents  |-> BaseEnts \cup {<<2, "cfg", 11>>, <<2, "cfg2", 15>>}]

\* /d/cfg -> gone, which does not exist
LayoutDangling ==
    [nodes |-> BaseNodes @@ (11 :> LinkNode(<<"gone">>)),
     ents  |-> BaseEnts \cup {<<2, "cfg", 11>>}]

\* /d -> /e and /e -> /d: a cycle of symlinked ancestors
LayoutDirCycle ==
    [nodes |-> (1 :> DirNode) @@ (14 :> LinkNode(<<"/", "e">>))
                 @@ (16 :> LinkNode(<<"/", "d">>)),
     ents  |-> {<<1, "d", 14>>, <<1, "e", 16>>}]

\* /d -> /l2 -> ... -> /l17 -> /a with the regular file /a/cfg: MAX_ITER + 1
\* symlinked ancestors, one after the other
ChainNames ==
    <<"d", "l2", "l3", "l4", "l5", "l6", "l7", "l8", "l9", "l10", "l11",
      "l12", "l13", "l14", "l15", "l16", "l17">>
ChainLen == MAX_ITER + 1
ChainIno(i) == 100 + i

LayoutChain ==
    [nodes |-> (1 :> DirNode) @@ (3 :> DirNode) @@ (10 :> FileNode("v1"))
                 @@ [n \in {ChainIno(i) : i \in 1..ChainLen} |->
                       LET i == n - 100
                       IN  LinkNode(IF i < ChainLen
                                    THEN <<"/", ChainNames[i + 1]>>
                                    ELSE <<"/", "a">>)],
     ents  |-> {<<1, "a", 3>>, <<3, "cfg", 10>>}
                 \cup {<<1, ChainNames[i], ChainIno(i)>> : i \in 1..ChainLen}]

\* ------------------------------------------------------------------- state
VARIABLES
    fs,                    \* the filesystem
    changes,               \* filesystem changes made so far
    probe,                 \* the last filesystem change and the state it met
    supPc,                 \* where FileWatcherConfig::run stands
    target,                \* run's local `target`, read and not yet sent
    permit,                \* the Notify's stored permit
    chan,                  \* the mpsc channel's buffer
    rxClosed,              \* the receiver was dropped
    bePc,                  \* where the task spawned by start_backend stands
    kw,                    \* the watches of the live inotify instance
    interesting_children,  \* load_config's map: handle -> expected child
    symlinks,              \* load_config's set of symlink-hop handles
    watch_handles,         \* load_config's vector of handles
    queue,                 \* events the kernel queued on the instance
    okReads,               \* history: every Ok(x) of read_target, in order
    sent,                  \* history: every item placed on the channel
    received,              \* history: every item the consumer received
    readBytes,             \* history: the bytes every whole-file read returned
    wakeSent,              \* history: items sent since the last wake-up
    fails,                 \* history: failed attempts of the retry loop run last
    buf,                   \* stream's buffer: the bytes of the last read
    buf_ref,               \* stream's buf_ref: the bytes not yet decoded
    yielded,               \* the events stream yielded from the last read
    rdPc                   \* where the stream's decoder stands

vars == <<fs, changes, probe, supPc, target, permit, chan, rxClosed, bePc, kw,
          interesting_children, symlinks, watch_handles, queue, okReads, sent,
          received, readBytes, wakeSent, fails, buf, buf_ref, yielded, rdPc>>

envVars == <<fs, changes, probe>>
supVars == <<supPc, target>>
planVars == <<kw, interesting_children, symlinks, watch_handles>>
histVars == <<okReads, sent, received, readBytes, wakeSent, fails>>
streamVars == <<buf, buf_ref, yielded, rdPc>>

Contents == {"v1", "v2", "!bad"}
NoTarget == <<>>

\* ------------------------------------------------------------------ parser
\* the user's parser, here one that rejects what starts with "!" and wraps
\* the rest into a value of T
parser(raw) ==
    IF raw = "!bad" THEN [ok |-> FALSE, val |-> <<"Parse", raw>>]
    ELSE [ok |-> TRUE, val |-> <<"T", raw>>]

\* a parser-blind read: the bytes are wrapped whatever the parser says
read_target_unchecked(f) ==
    LET raw == FsRead(f, File)
    IN  IF raw.ok THEN [ok |-> TRUE, val |-> <<"T", raw.bytes>>]
        ELSE [ok |-> FALSE, val |-> <<"Io">>]

\* read_target: tokio::fs::read(..)? then (self.parser)(raw)
read_target(f) ==
    LET raw == FsRead(f, File)
    IN  IF raw.ok THEN parser(raw.bytes) ELSE [ok |-> FALSE, val |-> <<"Io">>]

Min(a, b) == IF a < b THEN a ELSE b

\* -------------------------------------------------------------------- init
FileLayouts == {LayoutMissing, LayoutPlain}
LinkLayouts ==
    {LayoutSameDir(FALSE), LayoutSameDir(TRUE), LayoutOtherDir, LayoutDotDot}

PlanLayouts ==
    {LayoutPlain, LayoutSameDir(FALSE), LayoutAncestor, LayoutShadowed,
     LayoutUpward, LayoutCycle, LayoutDangling, LayoutDirCycle, LayoutChain}

NoProbe == [kind |-> "none", idle |-> FALSE, plan |-> FALSE, calm |-> FALSE]

\* the decoder before its first read
StreamInit ==
    /\ buf = <<>>
    /\ buf_ref = <<>>
    /\ yielded = <<>>
    /\ rdPc = "read"

InitWith(layouts) ==
    /\ fs \in layouts
    /\ changes = 0
    /\ probe = NoProbe
    /\ supPc = "init_read"
    /\ target = NoTarget
    /\ permit = FALSE
    /\ chan = <<>>
    /\ rxClosed = FALSE
    /\ bePc = "none"
    /\ kw = <<>>
    /\ interesting_children = <<>>
    /\ symlinks = {}
    /\ watch_handles = <<>>
    /\ queue = <<>>
    /\ okReads = <<>>
    /\ sent = <<>>
    /\ received = <<>>
    /\ readBytes = {}
    /\ wakeSent = 0
    /\ fails = 0
    /\ StreamInit

Init == InitWith(FileLayouts)
LinkInit == InitWith(LinkLayouts)

\* the state in which start_backend is called: the first value was read and
\* sent, the supervisor goes on to its select, the backend task is about to
\* build its first plan; what the filesystem is by then is up to the environment
PlanInit ==
    /\ fs \in PlanLayouts
    /\ changes = 0
    /\ probe = NoProbe
    /\ supPc = "select"
    /\ target = NoTarget
    /\ permit = FALSE
    /\ chan = <<<<"T", "v1">>>>
    /\ rxClosed = FALSE
    /\ bePc = "build"
    /\ kw = <<>>
    /\ interesting_children = <<>>
    /\ symlinks = {}
    /\ watch_handles = <<>>
    /\ queue = <<>>
    /\ okReads = <<<<"T", "v1">>>>
    /\ sent = <<<<"T", "v1">>>>
    /\ received = <<>>
    /\ readBytes = {"v1"}
    /\ wakeSent = 0
    /\ fails = 0
    /\ StreamInit

\* -------------------------------------------------------------- supervisor
\* an initial loop that gives up after one failure and sends a default value
SupInitRead_Default ==
    /\ supPc = "init_read"
    /\ LET r == read_target(fs)
           raw == FsRead(fs, File)
       IN  /\ readBytes' = IF raw.ok THEN readBytes \cup {raw.bytes} ELSE readBytes
           /\ supPc' = "init_send"
           /\ IF r.ok
              THEN /\ target' = r.val
                   /\ okReads' = Append(okReads, r.val)
                   /\ UNCHANGED fails
              ELSE /\ target' = <<"T", "">>
                   /\ fails' = Min(fails + 1, MaxFails)
                   /\ UNCHANGED okReads
    /\ UNCHANGED <<streamVars, envVars, permit, chan, rxClosed, bePc, planVars, queue,
                   sent, received, wakeSent>>

\* run, the initial loop: one read_target
SupInitRead ==
    /\ supPc = "init_read"
    /\ LET r == read_target(fs)
           raw == FsRead(fs, File)
       IN  /\ readBytes' = IF raw.ok THEN readBytes \cup {raw.bytes} ELSE readBytes
           /\ IF r.ok
              THEN /\ supPc' = "init_send"
                   /\ target' = r.val
                   /\ okReads' = Append(okReads, r.val)
                   /\ UNCHANGED fails
              ELSE /\ supPc' = "init_sleep"
                   /\ fails' = Min(fails + 1, MaxFails)
                   /\ UNCHANGED <<target, okReads>>
    /\ UNCHANGED <<streamVars, envVars, permit, chan, rxClosed, bePc, planVars, queue,
                   sent, received, wakeSent>>

\* run, the initial loop: tokio::time::sleep(retry_interval)
SupInitSleep ==
    /\ supPc = "init_sleep"
    /\ supPc' = "init_read"
    /\ UNCHANGED <<streamVars, envVars, target, permit, chan, rxClosed, bePc, planVars,
                   queue, histVars>>

\* run: sender.send(target) of the first value, then start_backend and on
\* to the select; a closed channel ends run
SupInitSend ==
    /\ supPc = "init_send"
    /\ IF rxClosed
       THEN /\ supPc' = "done"
            /\ target' = NoTarget
            /\ UNCHANGED <<chan, sent, bePc>>
       ELSE /\ Len(chan) < Capacity
            /\ chan' = Append(chan, target)
            /\ sent' = Append(sent, target)
            /\ target' = NoTarget
            /\ bePc' = "build"
            /\ supPc' = "select"
    /\ UNCHANGED <<streamVars, envVars, permit, rxClosed, planVars, queue, okReads,
                   received, readBytes, wakeSent, fails>>

\* select!: notify.notified() completes and takes the permit
SupWake ==
    /\ supPc = "select"
    /\ permit
    /\ permit' = FALSE
    /\ supPc' = "read"
    /\ wakeSent' = 0
    /\ fails' = 0
    /\ UNCHANGED <<streamVars, envVars, target, chan, rxClosed, bePc, planVars, queue,
                   okReads, sent, received, readBytes>>

\* select!: sender.closed() completes
SupClosed ==
    /\ supPc = "select"
    /\ rxClosed
    /\ supPc' = "done"
    /\ UNCHANGED <<streamVars, envVars, target, permit, chan, rxClosed, bePc, planVars,
                   queue, histVars>>

\* a steady-state loop that leaves the retry loop on a failure and sends the
\* value read before
SupRead_GivesUp ==
    /\ supPc = "read"
    /\ LET r == read_target(fs)
           raw == FsRead(fs, File)
       IN  /\ readBytes' = IF raw.ok THEN readBytes \cup {raw.bytes} ELSE readBytes
           /\ supPc' = "send"
           /\ IF r.ok
              THEN /\ target' = r.val
                   /\ okReads' = Append(okReads, r.val)
                   /\ UNCHANGED fails
              ELSE /\ target' = Last(okReads)
                   /\ fails' = Min(fails + 1, MaxFails)
                   /\ UNCHANGED okReads
    /\ UNCHANGED <<streamVars, envVars, permit, chan, rxClosed, bePc, planVars, queue,
                   sent, received, wakeSent>>

\* the steady-state loop: one read_target
SupRead ==
    /\ supPc = "read"
    /\ LET r == read_target(fs)
           raw == FsRead(fs, File)
       IN  /\ readBytes' = IF raw.ok THEN readBytes \cup {raw.bytes} ELSE readBytes
           /\ IF r.ok
              THEN /\ supPc' = "send"
                   /\ target' = r.val
                   /\ okReads' = Append(okReads, r.val)
                   /\ UNCHANGED fails
              ELSE /\ supPc' = "sleep"
                   /\ fails' = Min(fails + 1, MaxFails)
                   /\ UNCHANGED <<target, okReads>>
    /\ UNCHANGED <<streamVars, envVars, permit, chan, rxClosed, bePc, planVars, queue,
                   sent, received, wakeSent>>

\* a retry that only sleeps: a permit stored during the failing attempt is
\* still there when the next attempt starts
SupSleep_KeepsPermit ==
    /\ supPc = "sleep"
    /\ supPc' = "read"
    /\ UNCHANGED <<streamVars, envVars, target, permit, chan, rxClosed, bePc, planVars,
                   queue, histVars>>

\* the steady-state loop: sleep, then notified() enabled and dropped, which
\* takes a stored permit
SupSleep ==
    /\ supPc = "sleep"
    /\ supPc' = "read"
    /\ permit' = FALSE
    /\ UNCHANGED <<streamVars, envVars, target, chan, rxClosed, bePc, planVars, queue,
                   histVars>>

\* a send that does not wait: try_send, the value is dropped when the channel
\* is full
SupSend_TrySend ==
    /\ supPc = "send"
    /\ IF rxClosed
       THEN /\ supPc' = "done"
            /\ target' = NoTarget
            /\ UNCHANGED <<chan, sent, wakeSent>>
       ELSE /\ chan' = IF Len(chan) < Capacity THEN Append(chan, target) ELSE chan
            /\ sent' = IF Len(chan) < Capacity THEN Append(sent, target) ELSE sent
            /\ wakeSent' = wakeSent + 1
            /\ target' = NoTarget
            /\ supPc' = "select"
    /\ UNCHANGED <<streamVars, envVars, permit, rxClosed, bePc, planVars, queue, okReads,
                   received, readBytes, fails>>

\* the steady-state loop: sender.send(target); a closed channel ends run
\* a send that resets the Notify: a permit stored while the supervisor was
\* reading or waiting for room is gone when it returns to the select
SupSend_DropsPermit ==
    /\ supPc = "send"
    /\ IF rxClosed
       THEN /\ supPc' = "done"
            /\ target' = NoTarget
            /\ UNCHANGED <<chan, sent, wakeSent>>
       ELSE /\ Len(chan) < Capacity
            /\ chan' = Append(chan, target)
            /\ sent' = Append(sent, target)
            /\ wakeSent' = wakeSent + 1
            /\ target' = NoTarget
            /\ supPc' = "select"
    /\ permit' = FALSE
    /\ UNCHANGED <<streamVars, envVars, rxClosed, bePc, planVars, queue,
                   okReads, received, readBytes, fails>>

SupSend ==
    /\ supPc = "send"
    /\ IF rxClosed
       THEN /\ supPc' = "done"
            /\ target' = NoTarget
            /\ UNCHANGED <<chan, sent, wakeSent>>
       ELSE /\ Len(chan) < Capacity
            /\ chan' = Append(chan, target)
            /\ sent' = Append(sent, target)
            /\ wakeSent' = wakeSent + 1
            /\ target' = NoTarget
            /\ supPc' = "select"
    /\ UNCHANGED <<streamVars, envVars, permit, rxClosed, bePc, planVars,
                   queue, okReads, received, readBytes, fails>>

SupNext ==
    \/ SupInitRead
    \/ SupInitSleep
    \/ SupInitSend
    \/ SupWake
    \/ SupClosed
    \/ SupRead
    \/ SupSleep
    \/ SupSend

\* ---------------------------------------------------------------- consumer
\* receiver.recv()
Recv ==
    /\ ~rxClosed
    /\ chan # <<>>
    /\ received' = Append(received, Head(chan))
    /\ chan' = Tail(chan)
    /\ UNCHANGED <<streamVars, envVars, supVars, permit, rxClosed, bePc, planVars, queue,
                   okReads, sent, readBytes, wakeSent, fails>>

\* the receiver is dropped; what the buffer holds goes with it
DropReceiver ==
    /\ ~rxClosed
    /\ rxClosed' = TRUE
    /\ chan' = <<>>
    /\ UNCHANGED <<streamVars, envVars, supVars, permit, bePc, planVars, queue, histVars>>

\* ----------------------------------------------------------------- backend
\* a classification that does not compare the name: every event of a watched
\* directory ends the plan
Classify_AnyName(ic, sl, event) ==
    IF event.wd \in DOMAIN ic \/ event.wd \in sl THEN "refresh" ELSE "notify"

\* a classification with one answer for every event that passes the name
\* filter: the plan is ended
Classify_AlwaysRefresh(ic, sl, event) ==
    IF event.wd \in DOMAIN ic /\ event.name # ic[event.wd] THEN "continue"
    ELSE "refresh"

\* the event loop's classification of one event: "continue" (a sibling in a
\* watched directory), "refresh" (notify_one and return Ok: the plan is
\* rebuilt) or "notify" (notify_one, the plan stays)
Classify(ic, sl, event) ==
    IF event.wd \in DOMAIN ic
    THEN IF event.name # ic[event.wd] THEN "continue" ELSE "refresh"
    ELSE IF event.wd \in sl THEN "refresh" ELSE "notify"

\* a build whose Err leaves the instance alive: the watches added before the
\* failing step stay with the kernel during the sleep
BackendBuild_KeepsPartial ==
    /\ bePc = "build"
    /\ bePc' = CASE BuildPlan(fs, File).st = "ok" -> "events"
                 [] BuildPlan(fs, File).st = "err" -> "sleep"
                 [] BuildPlan(fs, File).st = "panic" -> "panicked"
                 [] OTHER -> "spinning"
    /\ kw' = IF bePc' \in {"events", "sleep"} THEN BuildPlan(fs, File).kw
             ELSE <<>>
    /\ interesting_children' =
          IF bePc' = "events" THEN BuildPlan(fs, File).interesting_children
          ELSE <<>>
    /\ symlinks' = IF bePc' = "events" THEN BuildPlan(fs, File).symlinks ELSE {}
    /\ watch_handles' =
          IF bePc' = "events" THEN BuildPlan(fs, File).watch_handles ELSE <<>>
    /\ queue' = <<>>
    /\ UNCHANGED <<streamVars, envVars, supVars, permit, chan, rxClosed, histVars>>

\* start_backend's loop: load_config from INotify::new() to the event loop.
\* An Err drops the instance and leads to the sleep; a panic ends the task.
BackendBuild ==
    /\ bePc = "build"
    /\ bePc' = CASE BuildPlan(fs, File).st = "ok" -> "events"
                 [] BuildPlan(fs, File).st = "err" -> "sleep"
                 [] BuildPlan(fs, File).st = "panic" -> "panicked"
                 [] OTHER -> "spinning"
    /\ kw' = IF bePc' = "events" THEN BuildPlan(fs, File).kw ELSE <<>>
    /\ interesting_children' =
          IF bePc' = "events" THEN BuildPlan(fs, File).interesting_children
          ELSE <<>>
    /\ symlinks' = IF bePc' = "events" THEN BuildPlan(fs, File).symlinks ELSE {}
    /\ watch_handles' =
          IF bePc' = "events" THEN BuildPlan(fs, File).watch_handles ELSE <<>>
    /\ queue' = <<>>
    /\ UNCHANGED <<streamVars, envVars, supVars, permit, chan, rxClosed, histVars>>

\* start_backend's loop: tokio::time::sleep(retry_interval) after an Err
BackendSleep ==
    /\ bePc = "sleep"
    /\ bePc' = "build"
    /\ UNCHANGED <<streamVars, envVars, supVars, permit, chan, rxClosed, planVars, queue,
                   histVars>>

\* an event loop whose return keeps the instance: the watches, the role maps
\* and the queued events of the plan it ends are still there when the next
\* build starts
BackendEvent_KeepsPlan ==
    /\ bePc = "events"
    /\ queue # <<>>
    /\ LET c == Classify(interesting_children, symlinks, Head(queue))
       IN  /\ permit' = IF c = "continue" THEN permit ELSE TRUE
           /\ bePc' = IF c = "refresh" THEN "build" ELSE bePc
           /\ queue' = Tail(queue)
           /\ UNCHANGED planVars
    /\ UNCHANGED <<streamVars, envVars, supVars, chan, rxClosed, histVars>>

\* load_config's event loop: one event of the stream
BackendEvent ==
    /\ bePc = "events"
    /\ queue # <<>>
    /\ LET c == Classify(interesting_children, symlinks, Head(queue))
       IN  /\ permit' = IF c = "continue" THEN permit ELSE TRUE
           /\ IF c = "refresh"
              THEN /\ bePc' = "build"
                   /\ kw' = <<>>
                   /\ interesting_children' = <<>>
                   /\ symlinks' = {}
                   /\ watch_handles' = <<>>
                   /\ queue' = <<>>
              ELSE /\ queue' = Tail(queue)
                   /\ UNCHANGED <<bePc, planVars>>
    /\ UNCHANGED <<streamVars, envVars, supVars, chan, rxClosed, histVars>>

BackendNext ==
    \/ BackendBuild
    \/ BackendSleep
    \/ BackendEvent

\* ------------------------------------------------------------------ kernel
Raw(ino, type, name) == [ino |-> ino, type |-> type, name |-> name]

\* the kernel queues a raw event on the watch of its inode when the watch's
\* mask has the event's bit; IN_DELETE_SELF removes the watch, and the
\* removal queues IN_IGNORED.  `on` records what the inode was (the event
\* loop never sees it)
RECURSIVE Deliver(_, _, _)
Deliver(w, q, raws) ==
    IF raws = <<>> THEN [kw |-> w, queue |-> q]
    ELSE LET e == Head(raws)
             hit == {i \in 1..Len(w) : w[i].ino = e.ino}
         IN  IF hit = {} THEN Deliver(w, q, Tail(raws))
             ELSE LET i == CHOOSE i \in hit : TRUE
                      q1 == IF e.type \in w[i].mask
                            THEN Append(q, [wd |-> i, mask |-> e.type,
                                            name |-> e.name,
                                            on |-> fs.nodes[e.ino].kind])
                            ELSE q
                  IN  IF e.type = "DeleteSelf"
                      THEN Deliver([w EXCEPT ![i].ino = 0],
                                   Append(q1, [wd |-> i, mask |-> "Ignored",
                                               name |-> "",
                                               on |-> fs.nodes[e.ino].kind]),
                                   Tail(raws))
                      ELSE Deliver(w, q1, Tail(raws))

\* ------------------------------------------------------------- environment
SupIdle == supPc = "select" /\ ~permit
BackendIdle == bePc = "events" /\ queue = <<>>

\* nothing is pending anywhere: only a filesystem change or the consumer
\* can make the watcher move again
Quiescent ==
    /\ SupIdle
    /\ chan = <<>>
    /\ ~rxClosed
    /\ BackendIdle \/ bePc = "panicked"

\* the installed plan is the plan load_config would build now
PlanCurrent ==
    LET b == BuildPlan(fs, File)
    IN  /\ bePc = "events"
        /\ b.st = "ok"
        /\ b.kw = kw
        /\ b.interesting_children = interesting_children
        /\ b.symlinks = symlinks

\* what a filesystem change of this kind meets
Probe(kind) ==
    [kind |-> kind, idle |-> SupIdle, plan |-> PlanCurrent, calm |-> Quiescent]

TargetDir == Lookup(fs, Parent(File), TRUE)
TargetEntry == IF TargetDir = 0 THEN 0 ELSE Child(fs, TargetDir, FileName(File))
FreshIno == 20 + changes
LinkTargets == {<<"other">>, <<"/", "a", "other">>}

Happens(raws) ==
    LET d == Deliver(kw, queue, raws)
    IN  /\ kw' = d.kw
        /\ queue' = d.queue
        /\ changes' = changes + 1
        /\ UNCHANGED <<supVars, permit, chan, rxClosed, bePc,
                       interesting_children, symlinks, watch_handles, histVars,
                       streamVars>>

\* an in-place write, write(2) then close(2), to the file the target path
\* resolves to
EnvWrite ==
    /\ changes < MaxChanges
    /\ LET leaf == Lookup(fs, File, TRUE)
       IN  /\ leaf # 0
           /\ fs.nodes[leaf].kind = "file"
           /\ \E c \in Contents \ {fs.nodes[leaf].data} :
                 fs' = [fs EXCEPT !.nodes[leaf].data = c]
           /\ probe' = Probe(IF probe.kind = "rename" /\ probe.idle /\ probe.plan
                             THEN "rename+write" ELSE "write")
           /\ Happens(<<Raw(leaf, "Modify", ""), Raw(leaf, "CloseWrite", "")>>)

\* the filesystem without the target path's entry, or with inode new in its
\* place; an inode that loses its last name goes
Relinked(new, node) ==
    LET old == TargetEntry
        keep == IF Nlink(fs, old) = 1 THEN DOMAIN fs.nodes \ {old}
                ELSE DOMAIN fs.nodes
        here == IF new = 0 THEN keep ELSE keep \cup {new}
    IN  [nodes |-> [i \in here |-> IF i = new THEN node ELSE fs.nodes[i]],
         ents  |-> (fs.ents \ {<<TargetDir, FileName(File), old>>})
                     \cup (IF new = 0 THEN {}
                           ELSE {<<TargetDir, FileName(File), new>>})]

Released(old) ==
    IF Nlink(fs, old) = 1 THEN <<Raw(old, "DeleteSelf", "")>> ELSE <<>>

\* rename(2) of name.tmp, holding node, over the target path's entry
Replace(node) ==
    /\ fs' = Relinked(FreshIno, node)
    /\ Happens(<<Raw(TargetDir, "MovedFrom", "cfg.tmp"),
                 Raw(TargetDir, "MovedTo", FileName(File))>>
               \o Released(TargetEntry))

\* an editor's save: a new file is renamed over the target path
EnvRenameOver ==
    /\ changes < MaxChanges
    /\ TargetEntry # 0
    /\ probe' = Probe(IF fs.nodes[TargetEntry].kind = "file"
                      THEN "rename" ELSE "replace")
    /\ \E c \in Contents \ {fs.nodes[TargetEntry].data} : Replace(FileNode(c))

\* the symbolic link at the target path is retargeted by rename(2) to
\* another regular file
EnvRetarget ==
    /\ changes < MaxChanges
    /\ TargetEntry # 0
    /\ fs.nodes[TargetEntry].kind = "link"
    /\ probe' = Probe("retarget")
    /\ \E t \in LinkTargets \ {fs.nodes[TargetEntry].link} :
          /\ LET i == Lookup(fs, Join(Parent(File), t), TRUE)
             IN  i # 0 /\ fs.nodes[i].kind = "file"
          /\ Replace(LinkNode(t))

\* unlink(2) of the target path's entry
EnvUnlink ==
    /\ changes < MaxChanges
    /\ TargetEntry # 0
    /\ probe' = Probe("unlink")
    /\ fs' = Relinked(0, DirNode)
    /\ Happens(<<Raw(TargetDir, "Delete", FileName(File))>>
               \o Released(TargetEntry))

\* the missing target file is created
EnvCreate ==
    /\ changes < MaxChanges
    /\ TargetDir # 0
    /\ TargetEntry = 0
    /\ probe' = Probe("create")
    /\ \E c \in Contents :
          fs' = [nodes |-> [i \in DOMAIN fs.nodes \cup {FreshIno} |->
                              IF i = FreshIno THEN FileNode(c) ELSE fs.nodes[i]],
                 ents  |-> fs.ents \cup {<<TargetDir, FileName(File), FreshIno>>}]
    /\ Happens(<<Raw(TargetDir, "Create", FileName(File))>>)

\* the symbolic link /d, an ancestor of the target, is retargeted by
\* rename(2) to another directory
AncestorTargets == {<<"x">>, <<"/", "a">>}

EnvRetargetAncestor ==
    /\ changes < MaxChanges
    /\ LET old == Child(fs, Root, File[2])
       IN  /\ old # 0
           /\ fs.nodes[old].kind = "link"
           /\ probe' = Probe("retarget_dir")
           /\ \E t \in AncestorTargets \ {fs.nodes[old].link} :
                 /\ LET i == Lookup(fs, Join(<<"/">>, t), TRUE)
                    IN  i # 0 /\ fs.nodes[i].kind = "dir"
                 /\ fs' = [nodes |->
                              [i \in (DOMAIN fs.nodes \ {old}) \cup {FreshIno} |->
                                 IF i = FreshIno THEN LinkNode(t) ELSE fs.nodes[i]],
                           ents  |-> (fs.ents \ {<<Root, File[2], old>>})
                                       \cup {<<Root, File[2], FreshIno>>}]
           /\ Happens(<<Raw(Root, "MovedFrom", "d.tmp"),
                        Raw(Root, "MovedTo", File[2]),
                        Raw(old, "DeleteSelf", "")>>)

\* a burst of events in a watched directory (siblings of the expected child)
\* exceeds the kernel's queue limit: the kernel drops them and queues
\* IN_Q_OVERFLOW, whose watch descriptor is -1
KernelOverflow ==
    /\ changes < MaxChanges
    /\ bePc = "events"
    /\ DOMAIN interesting_children # {}
    /\ probe' = Probe("overflow")
    /\ queue' = Append(queue, [wd |-> -1, mask |-> "QueueOverflow",
                               name |-> "", on |-> "none"])
    /\ changes' = changes + 1
    /\ UNCHANGED <<fs, supVars, permit, chan, rxClosed, bePc, planVars,
                   histVars, streamVars>>

\* the changes made to a regular target file
EnvNext ==
    \/ EnvWrite
    \/ EnvRenameOver
    \/ EnvUnlink
    \/ EnvCreate

\* the changes made to a target that is a symbolic link
LinkEnvNext ==
    \/ EnvRetarget
    \/ EnvUnlink

\* ------------------------------------------------------------ event stream
\* a 32-bit field of the buffer, in the machine's byte order (little-endian)
U32(b, at) ==
    b[at + 1] + 256 * b[at + 2] + 65536 * b[at + 3] + 16777216 * b[at + 4]

LE(n) ==
    <<n % 256, (n \div 256) % 256, (n \div 65536) % 256, (n \div 16777216) % 256>>

Zeros(n) == [i \in 1..n |-> 0]

\* the length field of a record: no name, no bytes; else the name and at
\* least one NUL, padded to a multiple of the header's size
PadLen(name) ==
    IF name = <<>> THEN 0 ELSE ((Len(name) \div EVENT_SIZE) + 1) * EVENT_SIZE

\* RawINotifyEvent followed by its inline C string
EncodeRecord(r) ==
    LE(r.watch_descriptor) \o LE(r.mask) \o LE(r.cookie) \o LE(PadLen(r.name))
       \o r.name \o Zeros(PadLen(r.name) - Len(r.name))

RECURSIVE Encode(_)
Encode(rs) == IF rs = <<>> THEN <<>> ELSE EncodeRecord(Head(rs)) \o Encode(Tail(rs))

\* the decoder's trimming: trailing NUL bytes are cut off the name
RECURSIVE TrimNul(_)
TrimNul(path) ==
    IF path # <<>> /\ Last(path) = 0 THEN TrimNul(Front(path)) ELSE path

\* one iteration of the while loop of stream() on a buf_ref that is not
\* empty, after a read of read_len bytes.  "spin": the continue that leaves
\* buf_ref as it is, so that every further iteration is the same; "skip":
\* the continue after the header; "panic": a slice beyond the end of buf_ref
decode(read_len, ref) ==
    IF Len(ref) < EVENT_SIZE THEN [st |-> "spin", ref |-> ref, ev |-> <<>>]
    ELSE
    LET raw_len == U32(ref, 12)
        rest    == SubSeq(ref, EVENT_SIZE + 1, Len(ref))
    IN  IF read_len - EVENT_SIZE < raw_len
        THEN [st |-> "skip", ref |-> rest, ev |-> <<>>]
        ELSE IF raw_len > Len(rest)
        THEN [st |-> "panic", ref |-> rest, ev |-> <<>>]
        ELSE [st |-> "yield",
              ref |-> SubSeq(rest, raw_len + 1, Len(rest)),
              ev |-> <<[watch_descriptor |-> U32(ref, 0),
                        mask |-> U32(ref, 4),
                        cookie |-> U32(ref, 8),
                        name |-> TrimNul(SubSeq(rest, 1, raw_len))]>>]

\* the records the buffers are made of
LongName == [i \in 1..(EVENT_SIZE + 1) |-> 97]
Names == {<<>>, <<99, 102, 103>>, LongName}
Records ==
    [watch_descriptor : {1, 2}, mask : {2}, cookie : {0}, name : Names]
RecordSeqs == UNION {[1..n -> Records] : n \in 1..MaxRecords}

\* what one read may hand to the decoder: whole records as the kernel packs
\* them, and the same bytes cut short at any length
Cuts(b) == {SubSeq(b, 1, cut) : cut \in 1..Len(b)}
Buffers ==
    {b \in UNION {Cuts(Encode(rs)) : rs \in RecordSeqs} :
        Len(b) <= EVENT_SIZE + NAME_MAX + 1}

\* stream(): self.stream.read(&mut buf[..]).await, buf_ref = &mut buf[..read_len]
StreamRead ==
    /\ rdPc = "read"
    /\ buf' \in Buffers
    /\ buf_ref' = buf'
    /\ yielded' = <<>>
    /\ rdPc' = "decode"
    /\ UNCHANGED <<envVars, supVars, permit, chan, rxClosed, bePc, planVars,
                   queue, histVars>>

\* stream(): one iteration of `while !buf_ref.is_empty()`; when buf_ref is
\* empty after it, the outer loop goes to the next read
StreamDecode ==
    /\ rdPc = "decode"
    /\ LET d == decode(Len(buf), buf_ref)
       IN  /\ buf_ref' = d.ref
           /\ yielded' = yielded \o d.ev
           /\ rdPc' = CASE d.st = "spin" -> "spinning"
                         [] d.st = "panic" -> "panicked"
                         [] d.ref = <<>> -> "read"
                         [] OTHER -> "decode"
    /\ UNCHANGED <<buf, envVars, supVars, permit, chan, rxClosed, bePc,
                   planVars, queue, histVars>>

StreamNext ==
    \/ StreamRead
    \/ StreamDecode

\* ----------------------------------------------------------- specification
TaskNext ==
    \/ SupNext
    \/ BackendNext
    \/ Recv
    \/ DropReceiver

Next == TaskNext \/ EnvNext

\* the watcher of a regular file (or of a file that does not exist yet)
Spec == Init /\ [][Next]_vars

\* the backend task's step out of "build": BackendBuild is enabled whenever
\* bePc = "build" and is the only step that changes bePc there
BackendBuilt ==
    bePc = "build" /\ bePc' \in {"events", "sleep", "panicked", "spinning"}

\* the tasks are scheduled and the consumer keeps receiving; the environment
\* and the drop of the receiver are under no obligation
FairSpec ==
    /\ Spec
    /\ WF_vars(SupNext)
    /\ WF_bePc(BackendBuilt)
    /\ WF_vars(BackendSleep)
    /\ WF_vars(BackendEvent)
    /\ WF_vars(Recv)

LinkNext == TaskNext \/ LinkEnvNext

\* the watcher of a target that is a symbolic link
LinkSpec == LinkInit /\ [][LinkNext]_vars

\* the changes made around a plan: an ancestor link retargeted, a queue
\* overflow
PlanEnvNext ==
    \/ EnvRetargetAncestor
    \/ KernelOverflow

\* the supervisor past its first send
SteadyNext ==
    \/ SupWake
    \/ SupRead
    \/ SupSleep
    \/ SupSend

PlanNext ==
    \/ SteadyNext
    \/ BackendNext
    \/ Recv
    \/ PlanEnvNext

\* the backend's plan builder and event loop over filesystems of every shape
PlanSpec == PlanInit /\ [][PlanNext]_vars

\* the decoder of stream() alone, on the buffers of Buffers
DecodeSpec == Init /\ [][StreamNext]_vars

\* ------------------------------------------------------------------ claims
\* the consumer's latest item is the parse of what the target holds now
Converged ==
    LET r == read_target(fs)
    IN  r.ok /\ received # <<>> /\ Last(received) = r.val

\* the watch on the inode the target path resolves to is a leaf watch
LeafWatched ==
    \E wd \in 1..Len(kw) :
       /\ kw[wd].ino = Lookup(fs, File, TRUE)
       /\ wd \notin DOMAIN interesting_children
       /\ wd \notin symlinks

Pending == IF supPc \in {"init_send", "send"} THEN <<target>> ELSE <<>>

\* C1: the first item sent and received is the result of the first read+parse
\* attempt that succeeds, which is the parse of the bytes the file held at
\* that attempt; while the initial loop is still failing nothing has been sent.
C1_FirstItem ==
    /\ [](/\ sent # <<>> => okReads # <<>> /\ sent[1] = okReads[1]
          /\ received # <<>> => okReads # <<>> /\ received[1] = okReads[1]
          /\ supPc \in {"init_read", "init_sleep"} =>
                okReads = <<>> /\ sent = <<>> /\ chan = <<>>)
    /\ [][supPc = "init_read" /\ supPc' = "init_send" =>
            /\ FsRead(fs, File).ok
            /\ parser(FsRead(fs, File).bytes).ok
            /\ okReads' = <<parser(FsRead(fs, File).bytes).val>>
            /\ target' = okReads'[1]]_vars

\* the initial loop failed and retried, and the consumer then got its first item
C1_Witness ==
    /\ fails >= 1
    /\ Len(okReads) = 1
    /\ received = okReads

\* C2: convergence, as a property of every state where nothing is pending
\* (supervisor idle, channel empty, backend waiting on an empty queue): if the
\* target is readable and parseable, the consumer's latest item is its parse.
C2_Convergence == Quiescent /\ read_target(fs).ok => Converged

\* C3: once the receiver is dropped and the supervisor has returned, a backend
\* that waits on an empty queue has stopped and holds no inotify watch.
C3_NoLeak ==
    rxClosed /\ supPc = "done" /\ queue = <<>> /\ bePc # "build" =>
        bePc = "none" /\ kw = <<>>

\* C4: dropping the receiver eventually makes the supervisor return.
C4_DropTerminates == rxClosed ~> supPc = "done"

\* C5: in one wake-up of the steady-state loop nothing is sent while the
\* attempts fail, the value held for the send is the result of the attempt
\* that succeeded, and exactly that one value is sent.
C5_ParserIsolation ==
    /\ wakeSent <= 1
    /\ supPc \in {"read", "sleep"} => wakeSent = 0
    /\ supPc = "send" => wakeSent = 0 /\ target = Last(okReads)
    /\ wakeSent = 1 => Last(sent) = Last(okReads)
    /\ Len(sent) <= Len(okReads)

\* a wake-up whose attempts failed at least twice and then sent its one value
C5_Witness == wakeSent = 1 /\ fails >= 2 /\ supPc = "select"

\* C6: every item ever placed on the channel is the Ok result of the parser on
\* the bytes of one whole-file read; the supervisor has returned only if the
\* consumer closed the channel.
C6_OnlyValidated ==
    /\ \A i \in 1..Len(sent) :
          \E b \in readBytes : parser(b).ok /\ sent[i] = parser(b).val
    /\ \A i \in 1..Len(chan) : \E j \in 1..Len(sent) : chan[i] = sent[j]
    /\ supPc = "done" => rxClosed

\* a read error and a parse error were met, and the supervisor went on to send
C6_Witness ==
    /\ "!bad" \in readBytes
    /\ fails >= 2
    /\ wakeSent = 1
    /\ ~rxClosed

\* the last change was an editor's save over a regular target file (or an
\* in-place write after one), made with the plan current and the supervisor idle
C7_Case ==
    /\ probe.kind \in {"rename", "rename+write"}
    /\ probe.idle
    /\ probe.plan
    /\ ~rxClosed

\* C7: a file renamed over a regular target file, with the plan installed and
\* the supervisor idle, queues an event on the parent directory's watch whose
\* name is the recorded expected child; once nothing is pending the consumer's
\* latest item is the new file's parse, the plan is rebuilt and the leaf watch
\* is on the new inode; an in-place write made then is delivered as well.
C7_AtomicReplace ==
    /\ [][changes' # changes /\ probe'.kind = "rename" /\ probe'.plan =>
            \E i \in 1..Len(queue') :
               /\ queue'[i].wd \in DOMAIN interesting_children
               /\ queue'[i].mask = "MovedTo"
               /\ queue'[i].name = interesting_children[queue'[i].wd]]_vars
    /\ [](C7_Case /\ Quiescent /\ read_target(fs).ok =>
             Converged /\ PlanCurrent /\ LeafWatched)
    /\ (C7_Case /\ read_target(fs).ok ~>
           (Quiescent /\ Converged) \/ ~(C7_Case /\ read_target(fs).ok))

\* the save and the later write were both delivered
C7_Witness ==
    /\ C7_Case
    /\ probe.kind = "rename+write"
    /\ Quiescent
    /\ Converged
    /\ 10 \notin DOMAIN fs.nodes

\* C8: after a symbolic link at the target path is retargeted while nothing is
\* pending and the plan is installed, once nothing is pending again the
\* consumer's latest item is the parse of the new target.
C8_Retarget ==
    Quiescent /\ probe.kind = "retarget" /\ probe.calm /\ probe.plan => Converged

\* C9: the channel never holds more than 3 items, and while the receiver is
\* open what was received, what the channel holds and the value waiting in
\* send are, in this order, exactly the successful reads.
C9_Backpressure ==
    /\ Len(chan) <= Capacity
    /\ ~rxClosed => received \o chan \o Pending = okReads

\* the supervisor is blocked in send on a full channel
C9_Witness ==
    /\ Len(chan) = Capacity
    /\ supPc = "send"
    /\ ~rxClosed

\* C10: the event loop, on an event of a directory watch: a name equal to the
\* expected child notifies and ends the plan; any other name changes nothing
\* but the queue's head.
C10_DirectoryEvents ==
    [][BackendEvent /\ Head(queue).wd \in DOMAIN interesting_children =>
         IF Head(queue).name = interesting_children[Head(queue).wd]
         THEN permit' /\ bePc' = "build" /\ kw' = <<>> /\ queue' = <<>>
         ELSE /\ queue' = Tail(queue)
              /\ UNCHANGED <<envVars, supVars, permit, chan, rxClosed, bePc,
                             planVars, histVars>>]_vars

\* the sibling's event was dropped without a notification and the expected
\* child's event is next
C10_Witness ==
    /\ bePc = "events"
    /\ queue # <<>>
    /\ Head(queue).mask = "MovedTo"
    /\ Head(queue).wd \in DOMAIN interesting_children
    /\ Head(queue).name = interesting_children[Head(queue).wd]
    /\ probe.calm
    /\ ~permit

\* C11: the event loop, on an event of the watch of a symbolic link (the
\* target, a link of the main chain or a symlinked ancestor directory), stores
\* the permit and ends the plan so that it is rebuilt.
C11_SymlinkHops ==
    [][BackendEvent /\ Head(queue).on = "link" =>
          permit' /\ bePc' = "build"]_vars

\* C12: the event loop, on an event of the watch of the leaf file, stores the
\* permit and goes on to the next event with the instance, the handles and
\* the role maps unchanged.
C12_LeafEvents ==
    [][BackendEvent /\ Head(queue).on = "file" =>
          /\ permit'
          /\ queue' = Tail(queue)
          /\ UNCHANGED <<bePc, planVars, envVars, supVars, chan, rxClosed,
                         histVars>>]_vars

\* a write met the plan with nothing pending; its first event stored the
\* permit, its second is next and the plan is still the same
C12_Witness ==
    /\ probe.kind = "write"
    /\ probe.calm
    /\ probe.plan
    /\ permit
    /\ bePc = "events"
    /\ PlanCurrent
    /\ Len(queue) = 1
    /\ Head(queue).mask = "CloseWrite"
    /\ Head(queue).on = "file"

\* C13: the event loop, on IN_Q_OVERFLOW or IN_UNMOUNT, stores the permit and
\* discards the plan so that a new one is built.
C13_Overflow ==
    [][BackendEvent /\ Head(queue).mask \in {"QueueOverflow", "Unmount"} =>
          permit' /\ bePc' = "build" /\ kw' = <<>>]_vars

\* C14: a plan build that leaves phase 2 with ancestors still pending returns
\* an error (the backend sleeps and retries) and does not enter the event loop.
C14_MaxIter ==
    [][/\ BackendBuild
       /\ BuildPlan(fs, File).st = "ok"
       /\ BuildPlan(fs, File).next_round # <<>>
       => bePc' = "sleep"]_vars

\* C15: every plan build ends, in the event loop with an installed plan or
\* with an error return.
C15_BuildTerminates ==
    [][BackendBuild => bePc' \in {"events", "sleep"}]_vars

\* C16: a plan build that meets an I/O error installs nothing: the instance
\* and the watches added before the failing step are released, no event is
\* queued or processed while the backend sleeps, and the only step after the
\* sleep is a fresh build.
NothingInstalled ==
    /\ kw = <<>>
    /\ interesting_children = <<>>
    /\ symlinks = {}
    /\ watch_handles = <<>>
    /\ queue = <<>>

C16_BuildFailure ==
    /\ [][BackendBuild /\ BuildPlan(fs, File).st = "err" =>
             bePc' = "sleep" /\ NothingInstalled']_vars
    /\ [](bePc = "sleep" => NothingInstalled)
    /\ [][bePc = "sleep" /\ bePc' # "sleep" => bePc' = "build"]_vars
    /\ [][BackendBuild /\ kw' # <<>> =>
             BuildPlan(fs, File).st = "ok" /\ kw' = BuildPlan(fs, File).kw]_vars

\* the backend sleeps after a build that had added watches before it failed
C16_Witness ==
    /\ bePc = "sleep"
    /\ BuildPlan(fs, File).st = "err"
    /\ BuildPlan(fs, File).kw # <<>>

\* C17: a rebuild drops the old plan before it builds the new one: outside
\* the event loop no watch, role entry or queued event exists; a build that
\* installs a plan installs exactly what it built, on an empty queue; and in
\* the event loop every role entry and every queued event names a handle of
\* the one live instance.
C17_DropThenBuild ==
    /\ [](bePc # "events" => NothingInstalled)
    /\ [](bePc = "events" =>
            /\ DOMAIN interesting_children \subseteq 1..Len(kw)
            /\ symlinks \subseteq 1..Len(kw)
            /\ \A i \in 1..Len(watch_handles) : watch_handles[i] \in 1..Len(kw)
            /\ \A i \in 1..Len(queue) : queue[i].wd \in 1..Len(kw))
    /\ [][BackendBuild /\ bePc' = "events" =>
             /\ kw' = BuildPlan(fs, File).kw
             /\ interesting_children' = BuildPlan(fs, File).interesting_children
             /\ symlinks' = BuildPlan(fs, File).symlinks
             /\ watch_handles' = BuildPlan(fs, File).watch_handles
             /\ queue' = <<>>]_vars

\* a second plan is in use: it is current, it watches an inode that came into
\* being by a change which met a current plan, and has an event to classify
C17_Witness ==
    /\ bePc = "events"
    /\ PlanCurrent
    /\ probe.plan
    /\ queue # <<>>
    /\ \E i \in 1..Len(kw) : kw[i].ino = FreshIno - changes

\* C18: in the steady-state retry loop a failed attempt is always followed by
\* the sleep, the attempt after the sleep starts with no stored permit, and
\* an attempt starts only from the select's wake-up or from the sleep: one
\* attempt per sleep, whatever was notified meanwhile.
C18_DiscardWhileFailing ==
    /\ [][supPc = "read" /\ supPc' # "read" /\ ~read_target(fs).ok =>
             supPc' = "sleep" /\ permit' = permit]_vars
    /\ [][supPc = "sleep" /\ supPc' # "sleep" =>
             supPc' = "read" /\ ~permit']_vars
    /\ [][supPc # "read" /\ supPc' = "read" =>
             \/ supPc = "sleep"
             \/ supPc = "select" /\ permit /\ ~permit']_vars
    /\ [](supPc = "sleep" => fails >= 1)

\* an attempt has failed and a notification was stored meanwhile; the backend
\* has nothing more to say
C18_Witness ==
    /\ supPc = "sleep"
    /\ permit
    /\ fails >= 1
    /\ BackendIdle

\* the directory entries the resolution goes through: the entry of every
\* element of the main chain and the entry of every directory above it
RECURSIVE Above(_)
Above(dir) ==
    IF Parent(dir) = NoPath THEN {}
    ELSE {<<Parent(dir), FileName(dir)>>} \cup Above(Parent(dir))

ChainEntries(f) ==
    LET h == Phase1(f, File, NewPlan, {}).next_round
    IN  UNION {{h[i]} \cup Above(h[i][1]) : i \in 1..Len(h)}

\* an event naming the entry, from the directory that holds it, ends the plan
Covered(f, w, ic, e) ==
    \E wd \in DOMAIN ic :
        /\ w[wd].ino = Lookup(f, e[1], TRUE)
        /\ Classify(ic, {}, [wd |-> wd, mask |-> "MovedTo", name |-> e[2],
                             on |-> "dir"]) = "refresh"

\* C19: a plan that is installed watches, for every element of the chain and
\* every directory above it, the directory holding that entry, and an event
\* of that directory naming the entry is classified as relevant.
C19_AncestorCoverage ==
    [][BackendBuild /\ bePc' = "events" =>
          \A e \in ChainEntries(fs) :
              Covered(fs, kw', interesting_children', e)]_vars

\* C20: every relative link target met by a plan build - on the main chain,
\* at a pending directory, at an ancestor of the walk upward - is joined to
\* the parent directory of the link itself, so that the path left for later
\* is the one the kernel resolves the link to.
C20_LinkBase ==
    [][BackendBuild =>
          LET l == BuildPlan(fs, File).links
          IN  \A i \in 1..Len(l) :
                /\ l[i][2] = normalize(Join(Parent(l[i][1]),
                                 fs.nodes[Lookup(fs, l[i][1], FALSE)].link))
                /\ Lookup(fs, l[i][2], TRUE) = Lookup(fs, l[i][1], TRUE)]_vars

\* the complete records at the front of a buffer: the parse stops at the
\* first record whose header or name is not wholly there
RECURSIVE Complete(_)
Complete(b) ==
    IF Len(b) < EVENT_SIZE \/ U32(b, 12) > Len(b) - EVENT_SIZE THEN <<>>
    ELSE <<[watch_descriptor |-> U32(b, 0), mask |-> U32(b, 4),
            cookie |-> U32(b, 8),
            name |-> TrimNul(SubSeq(b, EVENT_SIZE + 1, EVENT_SIZE + U32(b, 12)))]>>
         \o Complete(SubSeq(b, EVENT_SIZE + U32(b, 12) + 1, Len(b)))

IsPrefix(a, b) == Len(a) <= Len(b) /\ a = SubSeq(b, 1, Len(a))

\* C21: from every buffer of one read the decoder yields the complete
\* records, each once and in order, with the name's NUL padding trimmed; at
\* a partial trailing record it leaves the buffer and goes to the next read:
\* it neither spins nor slices beyond the end.
C21_Decoding ==
    /\ rdPc \in {"read", "decode"}
    /\ IsPrefix(yielded, Complete(buf))
    /\ rdPc = "read" => yielded = Complete(buf)

\* the same for buffers of whole records only
C21_WholeRecords ==
    (\E rs \in RecordSeqs : buf = Encode(rs)) =>
        /\ rdPc \in {"read", "decode"}
        /\ IsPrefix(yielded, Complete(buf))
        /\ rdPc = "read" => yielded = Complete(buf) /\ Len(yielded) >= 1

\* C22: the backend task never panics: whatever the filesystem holds, a plan
\* build ends with a plan or with an error, never with the end of the task.
C22_NeverPanics == bePc # "panicked"

\* C23: a permit stored while the supervisor reads (and the read succeeds) or
\* waits in send is still there when it returns to the select; the select is
\* left only by a wake-up that takes the one permit and starts a read, or by
\* the receiver's closing; and with the receiver open a further read starts.
C23_NotLost ==
    /\ [][permit /\ supPc \in {"read", "send"} /\ supPc' \in {"send", "select"}
            => permit']_vars
    /\ [][supPc = "select" /\ supPc' # "select" =>
            \/ supPc' = "read" /\ permit /\ ~permit'
            \/ supPc' = "done" /\ rxClosed]_vars
    /\ (permit /\ supPc = "send" ~> supPc = "read" \/ rxClosed)

\* the backend has signalled while the supervisor is blocked in send on a
\* full channel
C23_Witness ==
    /\ permit
    /\ supPc = "send"
    /\ Len(chan) = Capacity
    /\ ~rxClosed

=============================================================================
